---- MODULE Spec2Model ----
(***************************************************************************)
(* Shape-level model of src/src/modules/model.py: CNNLayerNorm,            *)
(* ResidualCNN, BidirectionalGRU and SpeechRecognitionModel.               *)
(*                                                                         *)
(* A tensor is represented by its shape (a sequence of axis sizes), the    *)
(* meaning of each axis (a sequence of labels) and one abstract value in   *)
(* 0..ValMod-1.  Every library layer is modelled by the shape rule the     *)
(* tensor library applies (and the mismatch it raises), and by a           *)
(* deterministic update of the abstract value; dropout in training mode    *)
(* is the only source of randomness.                                       *)
(***************************************************************************)
EXTENDS Integers, Sequences, FiniteSets, TLC

VARIABLES unit, training, hp, net, input, x, axes, val, residual,
          pc, i, err, hn, call, out1, recur

vars == <<unit, training, hp, net, input, x, axes, val, residual,
          pc, i, err, hn, call, out1, recur>>

\* ---------------------------------------------------------------- bounds
MaxCnnLayers == 2
MaxRnnLayers == 2
MaxRnnDim == 2
MaxClass == 2
MaxFeats == 4
MaxStride == 3
MaxBatch == 2
MaxTime == 3
MaxKernel == 4
MaxChannels == 2
MaxHidden == 2
ValMod == 5

\* ------------------------------------------------------ program constants
\* Conv2d(1, 32, 3, ...) and ResidualCNN(in_channels=32, out_channels=32, kernel=3)
CnnChannels == 32
CnnKernel == 3

\* ------------------------------------------------------- library layers
\* padding=kernel//2 (lines 43, 44) and padding=3//2 (line 117)
PaddingNone(kernel) == 0
Padding(kernel) == kernel \div 2

\* torch.nn.Conv2d output size along one spatial axis (dilation 1)
Conv2dOutNoPlus(n, kernel, stride, padding) == (n + 2 * padding - kernel) \div stride
Conv2dOut(n, kernel, stride, padding) == ((n + 2 * padding - kernel) \div stride) + 1

\* shape of Conv2d applied to (batch, channel, feature, time)
Conv2dShape(s, conv) ==
    << s[1], conv.out_channels,
       Conv2dOut(s[3], conv.kernel, conv.stride, conv.padding),
       Conv2dOut(s[4], conv.kernel, conv.stride, conv.padding) >>

\* Conv2d accepts the input when the channel count matches and the padded
\* input is not smaller than the kernel
Conv2dOK(s, conv) ==
    /\ s[2] = conv.in_channels
    /\ s[3] + 2 * conv.padding >= conv.kernel
    /\ s[4] + 2 * conv.padding >= conv.kernel

\* torch.nn.LayerNorm(n) accepts a tensor whose trailing axis has size n
LayerNormUnchecked(width, normalized) == TRUE
LayerNormOK(width, normalized) == width = normalized

\* CNNLayerNorm.forward: transpose(2, 3), LayerNorm over the trailing
\* (feature) axis, transpose(2, 3) back
CNNLayerNormOK(s, n_feats) ==
    LET t == << s[1], s[2], s[4], s[3] >> IN LayerNormOK(t[4], n_feats)

\* torch.nn.Linear(in_features, out_features) on the trailing axis
LinearOK(s, lin) == s[Len(s)] = lin.in_features
LinearShape(s, lin) == [s EXCEPT ![Len(s)] = lin.out_features]

\* x += residual: the right operand must broadcast to the shape of x
AddInPlaceOK(xs, rs) ==
    /\ Len(xs) = Len(rs)
    /\ \A a \in 1..Len(xs) : rs[a] = xs[a] \/ rs[a] = 1

\* x.view(sizes[0], sizes[1] * sizes[2], sizes[3])
ViewShape(sizes) == << sizes[1], sizes[2] * sizes[3], sizes[4] >>

\* x.transpose(1, 2) on a 3D tensor (0-based axes 1 and 2)
Transpose01(s) == << s[2], s[1], s[3] >>
Transpose12(s) == << s[1], s[3], s[2] >>

\* torch.nn.GRU(num_layers=1, bidirectional=True): the forward and the
\* backward pass are concatenated on the trailing axis
GRUShapeOneDirection(s, gru) == << s[1], s[2], gru.hidden_size >>
GRUShape(s, gru) == << s[1], s[2], 2 * gru.hidden_size >>

\* the axis the recurrence runs along (1-based index into the shape)
SeqAxis(gru) == IF gru.batch_first THEN 2 ELSE 1

\* self.BiGRU(x) is called without an initial hidden state: it starts from
\* zeros whatever an earlier call left behind
InitialHiddenPersist(previous) == previous
InitialHidden(previous) == 0

\* abstract value of a deterministic layer, of the GRU and of dropout
Det(v) == (v + 1) % ValMod
GRUVal(v, h0) == (v + h0 + 1) % ValMod
DropoutAlways(v, train, mask) == (v * mask) % ValMod
Dropout(v, train, mask) == IF train THEN (v * mask) % ValMod ELSE v

\* ------------------------------------------------------- construction
\* ResidualCNN.__init__
ResidualCNNInit(in_channels, out_channels, kernel, stride, n_feats) ==
    [ cnn1 |-> [in_channels |-> in_channels, out_channels |-> out_channels,
                kernel |-> kernel, stride |-> stride, padding |-> Padding(kernel)],
      cnn2 |-> [in_channels |-> out_channels, out_channels |-> out_channels,
                kernel |-> kernel, stride |-> stride, padding |-> Padding(kernel)],
      layer_norm1 |-> n_feats,
      layer_norm2 |-> n_feats ]

\* BidirectionalGRU.__init__
BidirectionalGRUInit(rnn_dim, hidden_size, batch_first) ==
    [ input_size |-> rnn_dim, hidden_size |-> hidden_size,
      batch_first |-> batch_first, layer_norm |-> rnn_dim ]

\* n_feats = n_feats//2 (line 116)
FeatsNotHalved(n_feats) == n_feats
HalvedFeats(n_feats) == n_feats \div 2

\* rnn_dim if i==0 else rnn_dim*2 (line 133), k is the 0-based index
BiRNNInputWidthSame(k, rnn_dim) == rnn_dim
BiRNNInputWidth(k, rnn_dim) == IF k = 0 THEN rnn_dim ELSE rnn_dim * 2

\* batch_first=i==0 (line 136)
BiRNNBatchFirst(k) == k = 0

\* SpeechRecognitionModel.__init__
SpeechRecognitionModelInit(h) ==
    LET n_feats == HalvedFeats(h.n_feats) IN
    [ cnn |-> [in_channels |-> 1, out_channels |-> CnnChannels,
               kernel |-> CnnKernel, stride |-> h.stride,
               padding |-> Padding(CnnKernel)],
      rescnn_layers |-> [ k \in 1..h.n_cnn_layers |->
            ResidualCNNInit(CnnChannels, CnnChannels, CnnKernel, 1, n_feats) ],
      fully_connected |-> [in_features |-> n_feats * CnnChannels,
                           out_features |-> h.rnn_dim],
      birnn_layers |-> [ k \in 1..h.n_rnn_layers |->
            BidirectionalGRUInit(BiRNNInputWidth(k - 1, h.rnn_dim), h.rnn_dim,
                                 BiRNNBatchFirst(k - 1)) ],
      classifier |-> [ linear1 |-> [in_features |-> h.rnn_dim * 2,
                                    out_features |-> h.rnn_dim],
                       linear2 |-> [in_features |-> h.rnn_dim,
                                    out_features |-> h.n_class] ] ]

\* a module holding only a residual block, or only a recurrent block
NoLinear == [in_features |-> 0, out_features |-> 0]
NoConv == [in_channels |-> 0, out_channels |-> 0, kernel |-> 1, stride |-> 1, padding |-> 0]
NoHP == [n_cnn_layers |-> 0, n_rnn_layers |-> 0, rnn_dim |-> 0, n_class |-> 0,
         n_feats |-> 0, stride |-> 1]
OnlyBlocks(res, rnn) ==
    [ cnn |-> NoConv, rescnn_layers |-> res, fully_connected |-> NoLinear,
      birnn_layers |-> rnn,
      classifier |-> [linear1 |-> NoLinear, linear2 |-> NoLinear] ]

\* ------------------------------------------------------- initial states
HPSet ==
    [ n_cnn_layers : 0..MaxCnnLayers, n_rnn_layers : 0..MaxRnnLayers,
      rnn_dim : 1..MaxRnnDim, n_class : 1..MaxClass,
      n_feats : 1..MaxFeats, stride : 1..MaxStride ]

\* the end-to-end scenario of the specification
ScenarioHP ==
    [ n_cnn_layers |-> 3, n_rnn_layers |-> 2, rnn_dim |-> 256, n_class |-> 29,
      n_feats |-> 128, stride |-> 2 ]
ScenarioInput == << 2, 1, 128, 300 >>

Start(u, tr, h, n, inp, ax, p) ==
    /\ unit = u /\ training = tr /\ hp = h /\ net = n
    /\ input = inp /\ x = inp /\ axes = ax /\ val = 1
    /\ residual = [shape |-> << >>, val |-> 0]
    /\ pc = p /\ i = 1 /\ err = "none" /\ hn = 0 /\ call = 1
    /\ out1 = [shape |-> << >>, val |-> 0] /\ recur = << >>

CnnAxes == << "batch", "channel", "feature", "time" >>

InitModel ==
    \E h \in HPSet, B \in 1..MaxBatch, T \in 1..MaxTime, tr \in BOOLEAN :
        Start("model", tr, h, SpeechRecognitionModelInit(h),
              << B, 1, h.n_feats, T >>, CnnAxes, "cnn")

InitScenario ==
    Start("model", FALSE, ScenarioHP, SpeechRecognitionModelInit(ScenarioHP),
          ScenarioInput, CnnAxes, "cnn")

InitResidualCNN ==
    \E C \in 1..MaxChannels, k \in 1..MaxKernel, s \in 1..MaxStride,
       F \in 1..MaxFeats, B \in 1..MaxBatch, T \in 1..MaxTime :
        Start("rescnn", FALSE, NoHP,
              OnlyBlocks(<< ResidualCNNInit(C, C, k, s, F) >>, << >>),
              << B, C, F, T >>, CnnAxes, "res_norm1")

InitBidirectionalGRU ==
    \E d \in 1..MaxRnnDim, h \in 1..MaxHidden, bf \in BOOLEAN,
       d0 \in 1..MaxBatch, d1 \in 1..MaxTime :
        Start("bigru", FALSE, NoHP,
              OnlyBlocks(<< >>, << BidirectionalGRUInit(d, h, bf) >>),
              << d0, d1, d >>,
              IF bf THEN << "batch", "time", "feature" >>
                    ELSE << "time", "batch", "feature" >>,
              "gru_norm")

Init == InitModel \/ InitScenario \/ InitResidualCNN \/ InitBidirectionalGRU

\* ------------------------------------------------------------- forward
\* a shape mismatch raised by the tensor library ends the call
Raise(loc) ==
    /\ pc' = "error" /\ err' = loc
    /\ UNCHANGED <<unit, training, hp, net, input, x, axes, val, residual,
                   i, hn, call, out1, recur>>

\* where control goes after block k of a Sequential stack of n blocks
AfterResidual(k, n) ==
    IF k < n THEN "res_norm1" ELSE IF unit = "rescnn" THEN "done" ELSE "view"
AfterRecurrent(k, n) ==
    IF k < n THEN "gru_norm" ELSE IF unit = "bigru" THEN "done" ELSE "cls_linear1"

\* x = self.cnn(x)  (line 153)
Cnn ==
    /\ pc = "cnn"
    /\ IF Conv2dOK(x, net.cnn)
       THEN /\ x' = Conv2dShape(x, net.cnn)
            /\ val' = Det(val)
            /\ i' = 1
            /\ pc' = IF Len(net.rescnn_layers) = 0 THEN "view" ELSE "res_norm1"
            /\ UNCHANGED <<unit, training, hp, net, input, axes, residual,
                           err, hn, call, out1, recur>>
       ELSE Raise("cnn")

\* residual = x; x = self.layer_norm1(x); x = F.gelu(x)  (lines 59-61)
ResNorm1 ==
    /\ pc = "res_norm1"
    /\ IF CNNLayerNormOK(x, net.rescnn_layers[i].layer_norm1)
       THEN /\ residual' = [shape |-> x, val |-> val]
            /\ val' = Det(val)
            /\ pc' = "res_dropout1"
            /\ UNCHANGED <<unit, training, hp, net, input, x, axes, i, err,
                           hn, call, out1, recur>>
       ELSE Raise("layer_norm1")

\* x = self.dropout1(x)  (line 62)
ResDropout1 ==
    /\ pc = "res_dropout1"
    /\ \E mask \in 0..1 : val' = Dropout(val, training, mask)
    /\ pc' = "res_cnn1"
    /\ UNCHANGED <<unit, training, hp, net, input, x, axes, residual, i, err,
                   hn, call, out1, recur>>

\* x = self.cnn1(x)  (line 63)
ResCnn1 ==
    /\ pc = "res_cnn1"
    /\ IF Conv2dOK(x, net.rescnn_layers[i].cnn1)
       THEN /\ x' = Conv2dShape(x, net.rescnn_layers[i].cnn1)
            /\ val' = Det(val)
            /\ pc' = "res_norm2"
            /\ UNCHANGED <<unit, training, hp, net, input, axes, residual, i,
                           err, hn, call, out1, recur>>
       ELSE Raise("cnn1")

\* x = self.layer_norm2(x); x = F.gelu(x)  (lines 64-65)
ResNorm2 ==
    /\ pc = "res_norm2"
    /\ IF CNNLayerNormOK(x, net.rescnn_layers[i].layer_norm2)
       THEN /\ val' = Det(val)
            /\ pc' = "res_dropout2"
            /\ UNCHANGED <<unit, training, hp, net, input, x, axes, residual,
                           i, err, hn, call, out1, recur>>
       ELSE Raise("layer_norm2")

\* x = self.dropout2(x)  (line 66)
ResDropout2 ==
    /\ pc = "res_dropout2"
    /\ \E mask \in 0..1 : val' = Dropout(val, training, mask)
    /\ pc' = "res_cnn2"
    /\ UNCHANGED <<unit, training, hp, net, input, x, axes, residual, i, err,
                   hn, call, out1, recur>>

\* x = self.cnn2(x)  (line 67)
ResCnn2 ==
    /\ pc = "res_cnn2"
    /\ IF Conv2dOK(x, net.rescnn_layers[i].cnn2)
       THEN /\ x' = Conv2dShape(x, net.rescnn_layers[i].cnn2)
            /\ val' = Det(val)
            /\ pc' = "res_add"
            /\ UNCHANGED <<unit, training, hp, net, input, axes, residual, i,
                           err, hn, call, out1, recur>>
       ELSE Raise("cnn2")

\* x += residual; return x  (lines 68-70)
ResAdd ==
    /\ pc = "res_add"
    /\ IF AddInPlaceOK(x, residual.shape)
       THEN /\ val' = (val + residual.val) % ValMod
            /\ pc' = AfterResidual(i, Len(net.rescnn_layers))
            /\ i' = IF i < Len(net.rescnn_layers) THEN i + 1 ELSE 1
            /\ UNCHANGED <<unit, training, hp, net, input, x, axes, residual,
                           err, hn, call, out1, recur>>
       ELSE Raise("add")

\* sizes = x.size(); x = x.view(...)  (lines 155-156)
View ==
    /\ pc = "view"
    /\ x' = ViewShape(x)
    /\ axes' = << "batch", "feature", "time" >>
    /\ pc' = "transpose"
    /\ UNCHANGED <<unit, training, hp, net, input, val, residual, i, err, hn,
                   call, out1, recur>>

\* x = x.transpose(1, 2)  (line 157)
Transpose ==
    /\ pc = "transpose"
    /\ x' = Transpose12(x)
    /\ axes' = Transpose12(axes)
    /\ pc' = "fully_connected"
    /\ UNCHANGED <<unit, training, hp, net, input, val, residual, i, err, hn,
                   call, out1, recur>>

\* x = self.fully_connected(x)  (line 158)
FullyConnected ==
    /\ pc = "fully_connected"
    /\ IF LinearOK(x, net.fully_connected)
       THEN /\ x' = LinearShape(x, net.fully_connected)
            /\ val' = Det(val)
            /\ i' = 1
            /\ pc' = IF Len(net.birnn_layers) = 0 THEN "cls_linear1" ELSE "gru_norm"
            /\ UNCHANGED <<unit, training, hp, net, input, axes, residual,
                           err, hn, call, out1, recur>>
       ELSE Raise("fully_connected")

\* x = self.layer_norm(x); x = F.gelu(x)  (lines 99-100)
GruNorm ==
    /\ pc = "gru_norm"
    /\ IF LayerNormOK(x[Len(x)], net.birnn_layers[i].layer_norm)
       THEN /\ val' = Det(val)
            /\ pc' = "gru_run"
            /\ UNCHANGED <<unit, training, hp, net, input, x, axes, residual,
                           i, err, hn, call, out1, recur>>
       ELSE Raise("gru_layer_norm")

\* x, _ = self.BiGRU(x)  (line 101)
GruRun ==
    /\ pc = "gru_run"
    /\ IF x[Len(x)] = net.birnn_layers[i].input_size
       THEN /\ x' = GRUShape(x, net.birnn_layers[i])
            /\ val' = GRUVal(val, InitialHidden(hn))
            /\ hn' = GRUVal(val, InitialHidden(hn))
            /\ recur' = Append(recur, axes[SeqAxis(net.birnn_layers[i])])
            /\ pc' = "gru_dropout"
            /\ UNCHANGED <<unit, training, hp, net, input, axes, residual, i,
                           err, call, out1>>
       ELSE Raise("BiGRU")

\* x = self.dropout(x); return x  (lines 102-104)
GruDropout ==
    /\ pc = "gru_dropout"
    /\ \E mask \in 0..1 : val' = Dropout(val, training, mask)
    /\ pc' = AfterRecurrent(i, Len(net.birnn_layers))
    /\ i' = IF i < Len(net.birnn_layers) THEN i + 1 ELSE 1
    /\ UNCHANGED <<unit, training, hp, net, input, x, axes, residual, err, hn,
                   call, out1, recur>>

\* classifier[0], classifier[1]: Linear(rnn_dim*2, rnn_dim), GELU  (lines 140-141)
ClsLinear1 ==
    /\ pc = "cls_linear1"
    /\ IF LinearOK(x, net.classifier.linear1)
       THEN /\ x' = LinearShape(x, net.classifier.linear1)
            /\ val' = Det(val)
            /\ pc' = "cls_dropout"
            /\ UNCHANGED <<unit, training, hp, net, input, axes, residual, i,
                           err, hn, call, out1, recur>>
       ELSE Raise("classifier")

\* classifier[2]: Dropout  (line 142)
ClsDropout ==
    /\ pc = "cls_dropout"
    /\ \E mask \in 0..1 : val' = Dropout(val, training, mask)
    /\ pc' = "cls_linear2"
    /\ UNCHANGED <<unit, training, hp, net, input, x, axes, residual, i, err,
                   hn, call, out1, recur>>

\* classifier[3]: Linear(rnn_dim, n_class); return x  (lines 143, 160-162)
ClsLinear2 ==
    /\ pc = "cls_linear2"
    /\ IF LinearOK(x, net.classifier.linear2)
       THEN /\ x' = LinearShape(x, net.classifier.linear2)
            /\ val' = Det(val)
            /\ pc' = "done"
            /\ UNCHANGED <<unit, training, hp, net, input, axes, residual, i,
                           err, hn, call, out1, recur>>
       ELSE Raise("classifier")

\* a second forward call of the same model on the same input
SecondCall ==
    /\ unit = "model" /\ pc = "done" /\ call = 1
    /\ out1' = [shape |-> x, val |-> val]
    /\ call' = 2
    /\ x' = input /\ axes' = CnnAxes /\ val' = 1
    /\ pc' = "cnn" /\ i' = 1 /\ recur' = << >>
    /\ UNCHANGED <<unit, training, hp, net, input, residual, err, hn>>

Next ==
    \/ Cnn
    \/ ResNorm1 \/ ResDropout1 \/ ResCnn1
    \/ ResNorm2 \/ ResDropout2 \/ ResCnn2 \/ ResAdd
    \/ View \/ Transpose \/ FullyConnected
    \/ GruNorm \/ GruRun \/ GruDropout
    \/ ClsLinear1 \/ ClsDropout \/ ClsLinear2
    \/ SecondCall

Spec == Init /\ [][Next]_vars

TypeOK ==
    /\ unit \in {"model", "rescnn", "bigru"}
    /\ training \in BOOLEAN
    /\ call \in 1..2
    /\ val \in 0..(ValMod - 1)
    /\ \A a \in 1..Len(x) : x[a] >= 1

\* ---------------------------------------------------------------- claims
Terminal == pc \in {"done", "error"}
IsEven(n) == n % 2 = 0
IsOdd(n) == n % 2 = 1
TheBlock == net.rescnn_layers[1]
TheGRU == net.birnn_layers[1]

\* C1: with the default stride 2, n_rnn_layers >= 1 and an even feature count
\* F = n_feats, forward raises nothing and returns a tensor of shape
\* (B, floor((T-1)/2)+1, n_class); the scenario input (2, 1, 128, 300) with
\* 3 residual blocks, 2 recurrent blocks, rnn_dim 256 and 29 classes gives
\* (2, 150, 29).
C1_OutputShape ==
    (unit = "model" /\ hp.stride = 2 /\ hp.n_rnn_layers >= 1 /\ IsEven(hp.n_feats)) =>
        /\ pc # "error"
        /\ pc = "done" =>
              x = << input[1], ((input[4] - 1) \div 2) + 1, hp.n_class >>
        /\ (pc = "done" /\ hp = ScenarioHP /\ input = ScenarioInput) =>
              x = << 2, 150, 29 >>

C1_Witness ==
    /\ unit = "model" /\ pc = "done" /\ call = 2
    /\ hp = ScenarioHP /\ input = ScenarioInput
    /\ x = << 2, 150, 29 >>

\* C2: during forward of the top-level model the size of axis 0 of the
\* tensor equals the batch size of the input after every stage, so the
\* returned tensor has the batch size of the input.
C2_BatchPreserved ==
    unit = "model" => x[1] = input[1]

C2_Witness ==
    /\ unit = "model" /\ pc = "done" /\ hp.n_rnn_layers = 2 /\ hp.n_cnn_layers >= 1
    /\ input[1] = 2 /\ x[1] = 2 /\ x[2] # 2
    /\ ~ net.birnn_layers[2].batch_first

\* C3: in evaluation mode the second forward call on the same input returns
\* what the first returned, every dropout stage leaves the value as it is,
\* and the initial hidden state of a recurrent block does not depend on what
\* an earlier call left behind.
C3_EvalDeterministic ==
    /\ [](( unit = "model" /\ ~ training /\ call = 2 /\ pc = "done") =>
              [shape |-> x, val |-> val] = out1)
    /\ [][ ( ~ training /\ pc \in {"res_dropout1", "res_dropout2",
                                   "gru_dropout", "cls_dropout"}) =>
              val' = val ]_vars

C3_Witness ==
    /\ unit = "model" /\ ~ training /\ call = 2 /\ pc = "done"
    /\ hp.n_cnn_layers >= 1 /\ hp.n_rnn_layers = 2
    /\ hn # 0
    /\ [shape |-> x, val |-> val] = out1

\* C4 (as amended): for every odd kernel size k, a ResidualCNN with stride 1,
\* padding floor(k/2) and equal channel counts raises nothing and every
\* convolution, and the block as a whole, returns the spatial shape
\* (feature, time) of the input.
C4_OddKernelSameShape ==
    (unit = "rescnn" /\ TheBlock.cnn1.stride = 1 /\ IsOdd(TheBlock.cnn1.kernel)) =>
        /\ pc # "error"
        /\ x[3] = input[3] /\ x[4] = input[4]
        /\ pc = "done" => x = input

\* C4 (original): the same for every kernel size k >= 1.
C4_AnyKernelSameShape ==
    (unit = "rescnn" /\ TheBlock.cnn1.stride = 1) =>
        /\ pc # "error"
        /\ x[3] = input[3] /\ x[4] = input[4]
        /\ pc = "done" => x = input

C4_Witness ==
    /\ unit = "rescnn" /\ pc = "done" /\ TheBlock.cnn1.stride = 1
    /\ TheBlock.cnn1.kernel = 3 /\ TheBlock.cnn1.padding = 1
    /\ input[3] >= 2 /\ input[4] >= 2 /\ x = input

\* C5: every recurrent block of the top-level model that runs is configured
\* with the same axis-order mode as every other block of the stack, and its
\* recurrence runs along the time axis of the (batch, time, feature) tensor,
\* never along the batch axis.
C5_RecurrenceAlongTime ==
    unit = "model" =>
        \A j \in 1..Len(recur) :
            /\ \A k \in 1..Len(net.birnn_layers) :
                  net.birnn_layers[j].batch_first = net.birnn_layers[k].batch_first
            /\ recur[j] = "time"

\* C6: a BidirectionalGRU block, whatever its input width and axis-order
\* mode, returns a trailing axis of width 2 * hidden_size and leaves the
\* sizes of the other two axes as in the input.
C6_GRUOutputWidth ==
    (unit = "bigru" /\ pc \in {"gru_dropout", "done"}) =>
        x = << input[1], input[2], 2 * TheGRU.hidden_size >>

C6_Witness ==
    /\ unit = "bigru" /\ pc = "done"
    /\ ~ TheGRU.batch_first /\ TheGRU.hidden_size # TheGRU.input_size
    /\ input[1] # input[2]
    /\ x = << input[1], input[2], 2 * TheGRU.hidden_size >>

\* C7: with the default stride 2 and any declared n_feats >= 1, the width
\* n_feats // 2 every normalization layer and the projection are configured
\* with is the feature size floor((n_feats-1)/2)+1 the initial convolution
\* produces, so none of them raises a shape mismatch.
C7_HalvedMatchesConv ==
    (unit = "model" /\ hp.stride = 2) =>
        /\ pc \in {"res_norm1", "res_norm2"} =>
              /\ x[3] = hp.n_feats \div 2
              /\ x[3] = net.rescnn_layers[i].layer_norm1
              /\ x[3] = net.rescnn_layers[i].layer_norm2
        /\ pc = "fully_connected" =>
              /\ x[3] = (hp.n_feats \div 2) * CnnChannels
              /\ x[3] = net.fully_connected.in_features
        /\ err \notin {"layer_norm1", "layer_norm2", "fully_connected"}

\* C8 (as amended): with a stride other than 2 construction is not validated
\* and forward raises a shape mismatch at a normalization layer or at the
\* projection exactly when floor((n_feats-1)/s)+1 differs from n_feats // 2:
\* always for stride 1, but not for stride 3 and n_feats in 2..5.
NormOrProjection == {"layer_norm1", "layer_norm2", "fully_connected"}
C8_BreaksIffMismatch ==
    (unit = "model" /\ hp.stride # 2 /\ Terminal) =>
        /\ (pc = "error" /\ err \in NormOrProjection)
              <=> (((hp.n_feats - 1) \div hp.stride) + 1 # hp.n_feats \div 2)
        /\ hp.stride = 1 => (pc = "error" /\ err \in NormOrProjection)
        /\ (hp.stride = 3 /\ hp.n_feats \in 2..5) => err \notin NormOrProjection

\* C8 (original): with every stride other than 2 and every n_feats >= 1
\* forward raises a shape mismatch at a normalization layer or the projection.
C8_AlwaysBreaks ==
    (unit = "model" /\ hp.stride # 2 /\ Terminal) =>
        (pc = "error" /\ err \in NormOrProjection)

C8_Witness ==
    /\ unit = "model" /\ hp.stride = 3 /\ hp.n_feats = 2 /\ hp.n_cnn_layers >= 1
    /\ hp.n_rnn_layers >= 1 /\ pc = "done"

\* C9 (as amended): a ResidualCNN with kernel 3, padding 1 and a stride of 2
\* or more never returns a tensor of another spatial shape than its input:
\* it raises at layer_norm2 when F >= 2, at the residual addition when F = 1
\* and T >= 2, and returns the input shape when F = T = 1; the top-level
\* model builds residual blocks with stride 1 only.
C9_StrideFailure ==
    /\ (unit = "rescnn" /\ TheBlock.cnn1.kernel = 3 /\ TheBlock.cnn1.stride # 1
          /\ Terminal) =>
        /\ input[3] >= 2 => (pc = "error" /\ err = "layer_norm2")
        /\ (input[3] = 1 /\ input[4] >= 2) => (pc = "error" /\ err = "add")
        /\ (input[3] = 1 /\ input[4] = 1) => (pc = "done" /\ x = input)
    /\ unit = "model" =>
        \A k \in 1..Len(net.rescnn_layers) :
            net.rescnn_layers[k].cnn1.stride = 1 /\ net.rescnn_layers[k].cnn2.stride = 1

\* C9 (original): with any stride other than 1 forward ends in a shape
\* mismatch raised at the residual addition.
C9_FailsAtAddition ==
    /\ (unit = "rescnn" /\ TheBlock.cnn1.kernel = 3 /\ TheBlock.cnn1.stride # 1
          /\ Terminal) =>
        (pc = "error" /\ err = "add")
    /\ unit = "model" =>
        \A k \in 1..Len(net.rescnn_layers) :
            net.rescnn_layers[k].cnn1.stride = 1 /\ net.rescnn_layers[k].cnn2.stride = 1

C9_Witness ==
    /\ unit = "rescnn" /\ TheBlock.cnn1.kernel = 3 /\ TheBlock.cnn1.stride = 2
    /\ input[3] >= 2 /\ pc = "error" /\ err = "layer_norm2"

\* C10 (as amended): for every n_rnn_layers >= 1 the tensor arriving at each
\* layer after the projection has the width the layer is configured for:
\* rnn_dim at the first recurrent block, 2 * rnn_dim at every later block
\* and at the first linear layer of the classifier.
WidthsMatch ==
    /\ pc \in {"gru_norm", "gru_run"} =>
          /\ x[3] = net.birnn_layers[i].layer_norm
          /\ x[3] = net.birnn_layers[i].input_size
          /\ x[3] = IF i = 1 THEN hp.rnn_dim ELSE 2 * hp.rnn_dim
    /\ pc = "cls_linear1" =>
          /\ x[3] = net.classifier.linear1.in_features
          /\ x[3] = 2 * hp.rnn_dim
    /\ err \notin {"gru_layer_norm", "BiGRU", "classifier"}

====
